---------------------------- MODULE Spec2Model ----------------------------
(***************************************************************************)
(* A model of src/src/python/model_evaluation.ipynb: the notebook that     *)
(* fits a decision tree, derives a binary correctness vector from a        *)
(* held-out subset and estimates the posterior of the correctness rate p   *)
(* with pyro's HMC kernel and MCMC sampler.                                *)
(*                                                                         *)
(* The notebook's cells are the operations.  A cell is executed from its   *)
(* first statement to its last; between cells the kernel is idle and any   *)
(* cell may be executed (again).                                           *)
(*                                                                         *)
(* Values of p are grid points k/Scale with 0 < k < Scale.  The process's  *)
(* random generator is a stream of blocks: set_rng_seed rewinds it to its  *)
(* start, every consumer reads the block at the current position and       *)
(* advances.  The content of the stream is not known, so a block is chosen *)
(* the first time it is read and is fixed from then on.                    *)
(***************************************************************************)
EXTENDS Integers, Sequences, FiniteSets, TLC

\* ----------------------------------------------------------------- bounds
MaxN == 1          \* longest observation vector handed to the estimator
MaxWarmup == 1     \* largest warmup_steps
MaxSamples == 2    \* largest num_samples of the MCMC object
MaxResample == 2   \* largest num_samples of get_samples
MaxStream == 6     \* blocks of the generator's stream that may be read
MaxRuns == 2       \* executions of the inference cell
Scale == 3         \* p takes the values k/Scale, 0 < k < Scale

PGrid == 1..(Scale - 1)
RawVals == 0..(Scale - 1)

\* prob=0.95 of the summary cell, as a fraction <<numerator, denominator>>
RefProb == <<95, 100>>
ProbLevels == {<<1, 4>>, RefProb}

VARIABLES
    y,             \* the observation vector passed to mcmc.run
    warmup_steps,  \* MCMC(..., warmup_steps=...)
    num_samples,   \* MCMC(..., num_samples=...)
    resample_n,    \* get_samples(num_samples=...)
    prob,          \* summary(prob=...), <<numerator, denominator>>
    pc,            \* the statement the notebook kernel is at
    param_store,   \* pyro's process-wide parameter store
    rngStream,     \* the blocks of the generator's stream read so far
    rngPos,        \* the generator's position in its stream
    z,             \* the chain's current state (a grid point; 0: none)
    t,             \* chain iterations executed by the current run
    visited,       \* the state after each iteration of the current run
    samples,       \* mcmc._samples: the retained chain
    accepts,       \* accepted proposals of the current run (a diagnostic)
    n_req,         \* num_samples of the last get_samples call
    idxs,          \* the indices get_samples drew
    sample_dict,   \* sample_dict['p']
    stats,         \* what mcmc.summary reported
    clears,        \* clear_param_store calls so far
    runs,          \* kernels built so far
    run_start,     \* generator position when the current run began
    gets,          \* the run whose chain the last get_samples call read
    budget,        \* executions of the inference cell in this session
    cap,           \* blocks of the stream that may be read in this session
    log,           \* the last two completed estimates, oldest first
    \* one execution of model(y)
    m_pc,          \* the statement model(y) is at
    underlying_p,  \* the value of the site "p" (0: not drawn)
    loop_i,        \* the loop index i
    trace,         \* the sites the execution has registered, in order
    \* the data cells
    d_pc,          \* the data cell to execute next
    X_train,       \* the examples of the training split
    X_test,        \* the examples of the test split
    fitted_on,     \* the examples my_tree was fitted on
    X_100_test,    \* the examples of the evaluation subset
    y_100_test,    \* their true labels
    y_100_pred,    \* my_tree's predictions for them
    correctness_values_100  \* prediction == label, per example

vars == <<y, warmup_steps, num_samples, resample_n, prob, pc, param_store, rngStream, rngPos,
          z, t, visited, samples, accepts, n_req, idxs, sample_dict, stats,
          clears, runs, run_start, gets, budget, cap, log,
          m_pc, underlying_p, loop_i, trace,
          d_pc, X_train, X_test, fitted_on, X_100_test, y_100_test,
          y_100_pred, correctness_values_100>>

mvars == <<m_pc, underlying_p, loop_i, trace>>
dvars == <<d_pc, X_train, X_test, fitted_on, X_100_test, y_100_test,
           y_100_pred, correctness_values_100>>
aside == <<mvars, dvars>>
evars == <<warmup_steps, num_samples, resample_n, prob, pc, param_store,
           rngStream, rngPos, z, t, visited, samples, accepts, n_req, idxs,
           sample_dict, stats, clears, runs, run_start, gets, budget, cap, log>>
config == <<y, warmup_steps, num_samples, resample_n, prob>>
rng == <<rngStream, rngPos>>
chain == <<z, t, visited, samples, accepts>>
report == <<n_req, idxs, sample_dict, stats>>
history == <<clears, runs, run_start, gets, budget, cap, log>>

\* ---------------------------------------------------------------- helpers
RECURSIVE BinSeqs(_)
BinSeqs(n) == IF n = 0 THEN {<<>>}
              ELSE BinSeqs(n - 1) \cup [1..n -> {0, 1}]

Range(s) == {s[i] : i \in 1..Len(s)}

RECURSIVE SumSeq(_)
SumSeq(s) == IF s = <<>> THEN 0 ELSE s[1] + SumSeq(Tail(s))

NoStats == [n |-> 0, sum |-> 0, lower |-> 0, upper |-> 0, level |-> <<0, 1>>,
            accepted |-> 0]

\* ------------------------------------------------------------- generator
\* The block at position pos is v: the recorded one, or a new one.
BlockIs(pos, v) == pos <= Len(rngStream) => v = rngStream[pos]

ReadBlock(v) ==
    /\ BlockIs(rngPos, v)
    /\ rngStream' = IF rngPos > Len(rngStream) THEN Append(rngStream, v)
                    ELSE rngStream
    /\ rngPos' = rngPos + 1

\* k consecutive blocks vs, read in one call
ReadBlocks(k, vs) ==
    /\ \A i \in 1..k : BlockIs(rngPos + i - 1, vs[i])
    /\ rngStream' = [i \in 1..(IF rngPos + k - 1 > Len(rngStream)
                               THEN rngPos + k - 1 ELSE Len(rngStream)) |->
                        IF i <= Len(rngStream) THEN rngStream[i]
                        ELSE vs[i - rngPos + 1]]
    /\ rngPos' = rngPos + k

\* blocks one run of the inference cell reads
RunDraws == 1 + warmup_steps + num_samples

\* ------------------------------------------------------------------ init
InitEstimator ==
    /\ pc = "idle"
    /\ param_store = {}
    /\ rngStream = <<>>
    /\ rngPos = 1
    /\ z = 0
    /\ t = 0
    /\ visited = <<>>
    /\ samples = <<>>
    /\ accepts = 0
    /\ n_req = 0
    /\ idxs = <<>>
    /\ sample_dict = <<>>
    /\ stats = NoStats
    /\ clears = 0
    /\ runs = 0
    /\ run_start = 0
    /\ gets = 0
    /\ log = <<>>

\* model(y) is not executing
InitModel ==
    /\ m_pc = "return"
    /\ underlying_p = 0
    /\ loop_i = 0
    /\ trace = <<>>

\* the data cells have been executed
InitData ==
    /\ d_pc = "done"
    /\ X_train = {}
    /\ X_test = {}
    /\ fitted_on = {}
    /\ X_100_test = {}
    /\ y_100_test = <<>>
    /\ y_100_pred = <<>>
    /\ correctness_values_100 = <<>>

\* ------------------------------------------------------- the seeding cell
\* pyro.set_rng_seed(102563): the generator is back at the start of the
\* stream the seed determines.
SetRngSeed ==
    /\ pc = "idle"
    /\ rngPos # 1
    /\ rngPos' = 1
    /\ UNCHANGED <<aside, config, pc, param_store, rngStream, chain, report, history>>

\* ----------------------------------------------------- the inference cell
\* An inference cell that lacks the call of clear_param_store.
ClearParamStoreMissing ==
    /\ pc = "idle"
    /\ runs < budget
    /\ rngPos - 1 + (1 + warmup_steps + num_samples) <= cap
    /\ pc' = "cleared"
    /\ UNCHANGED <<aside, config, param_store, clears, rng, chain, report, runs,
                   run_start, gets, budget, cap, log>>

\* pyro.clear_param_store()
ClearParamStore ==
    /\ pc = "idle"
    /\ runs < budget
    /\ rngPos - 1 + RunDraws <= cap
    /\ param_store' = {}
    /\ clears' = clears + 1
    /\ pc' = "cleared"
    /\ UNCHANGED <<aside, config, rng, chain, report, runs, run_start, gets, budget, cap,
                   log>>

\* hmc_kernel = HMC(model, step_size = 0.1)
BuildKernel ==
    /\ pc = "cleared"
    /\ runs' = runs + 1
    /\ pc' = "kernel"
    /\ UNCHANGED <<aside, config, param_store, rng, chain, report, clears,
                   run_start, gets, budget, cap, log>>

\* A sampler object that is used again, with the samples it holds.
BuildMCMCKeepsSamples ==
    /\ pc = "kernel"
    /\ z' = 0
    /\ t' = 0
    /\ accepts' = 0
    /\ pc' = "mcmc"
    /\ UNCHANGED <<aside, config, param_store, rng, report, history, samples,
                   visited>>

\* mcmc = MCMC(hmc_kernel, num_samples=..., warmup_steps=...): a new
\* sampler object, which holds no samples.
BuildMCMC ==
    /\ pc = "kernel"
    /\ samples' = <<>>
    /\ visited' = <<>>
    /\ z' = 0
    /\ t' = 0
    /\ accepts' = 0
    /\ pc' = "mcmc"
    /\ UNCHANGED <<aside, config, param_store, rng, report, history>>

\* the kernel's initial value of p, from one block of the stream
InitialP(raw) == 1 + (raw % (Scale - 1))

\* mcmc.run(y): the kernel is set up and the chain gets its initial state.
RunSetup ==
    /\ pc = "mcmc"
    /\ \E raw \in RawVals :
          /\ ReadBlock(raw)
          /\ z' = InitialP(raw)
    /\ run_start' = rngPos
    /\ pc' = "chain"
    /\ UNCHANGED <<aside, config, param_store, t, visited, samples, accepts, report,
                   clears, runs, gets, budget, cap, log>>

\* One transition of the kernel from state p with block raw: the proposal
\* is rejected (the chain stays) or accepted (the chain moves).
Accepted(raw) == raw # 0
Transition(p, raw) == IF Accepted(raw) THEN raw ELSE p

\* A sampler that takes the last warm-up iteration for a retained one.
RetainOffByOne(acc, it, p) == IF it < warmup_steps THEN acc ELSE Append(acc, p)

\* What the sampler keeps of iteration number it (1-based) with state p.
Retain(acc, it, p) == IF it <= warmup_steps THEN acc ELSE Append(acc, p)

\* A chain for which a rejected proposal is fatal: the run stops.
ChainStepFatalReject ==
    /\ pc = "chain"
    /\ t < warmup_steps + num_samples
    /\ \E raw \in RawVals :
          /\ ReadBlock(raw)
          /\ z' = Transition(z, raw)
          /\ accepts' = accepts + (IF Accepted(raw) THEN 1 ELSE 0)
          /\ pc' = IF Accepted(raw) THEN pc ELSE "idle"
    /\ t' = t + 1
    /\ visited' = Append(visited, z')
    /\ samples' = Retain(samples, t + 1, z')
    /\ UNCHANGED <<aside, config, param_store, report, history>>

\* one iteration of the chain: warm-up first, then sampling
ChainStep ==
    /\ pc = "chain"
    /\ t < warmup_steps + num_samples
    /\ \E raw \in RawVals :
          /\ ReadBlock(raw)
          /\ z' = Transition(z, raw)
          /\ accepts' = accepts + (IF Accepted(raw) THEN 1 ELSE 0)
    /\ t' = t + 1
    /\ visited' = Append(visited, z')
    /\ samples' = Retain(samples, t + 1, z')
    /\ UNCHANGED <<aside, config, pc, param_store, report, history>>

\* mcmc.run returns: every iteration has been executed.
RunEnd ==
    /\ pc = "chain"
    /\ t >= warmup_steps + num_samples
    /\ pc' = "idle"
    /\ UNCHANGED <<aside, config, param_store, rng, chain, report, history>>

\* ------------------------------------------------------- the samples cell
\* torch.randint(0, batch_size, ...): one block reduced to an index
RandIndex(raw, batch_size) == raw % batch_size

\* An index_select that takes the index for a 1-based one.
SelectAtOneBased(chain_samples, idx) == chain_samples[IF idx = 0 THEN 1 ELSE idx]

\* index_select: the retained state at a 0-based index
SelectAt(chain_samples, idx) == chain_samples[idx + 1]

Latest(l) == IF l = <<>> THEN <<>> ELSE <<l[Len(l)]>>

\* sample_dict = mcmc.get_samples(num_samples=S): S indices into the
\* retained chain are drawn, with replacement, and the states at them
\* returned.  The retained chain is not written.
GetSamples ==
    /\ pc = "idle"
    /\ samples # <<>>
    /\ gets < runs
    /\ gets' = runs
    /\ rngPos - 1 + resample_n <= cap
    /\ \E vs \in [1..resample_n -> RawVals] :
          /\ ReadBlocks(resample_n, vs)
          /\ idxs' = [i \in 1..resample_n |-> RandIndex(vs[i], Len(samples))]
    /\ n_req' = resample_n
    /\ sample_dict' = [i \in 1..Len(idxs') |-> SelectAt(samples, idxs'[i])]
    /\ log' = Latest(log) \o <<[run_start |-> run_start, gs_start |-> rngPos,
                               n |-> n_req', chain |-> samples,
                               draws |-> sample_dict']>>
    /\ pc' = "sampled"
    /\ UNCHANGED <<aside, config, param_store, chain, stats, clears, runs, run_start,
                   budget, cap>>

Sorted(s) == SortSeq(s, LAMBDA a, b : a < b)

\* int(prob * mass)
IndexLength(level, mass) == (level[1] * mass) \div level[2]

\* pyro.ops.stats.hpdi: the intervals <<sorted[i], sorted[i + index_length]>>
\* (0-based i) of the sorted samples, and the starts of the narrowest ones.
HpdiWidth(s, k, i) == Sorted(s)[i + k + 1] - Sorted(s)[i + 1]

HpdiStarts(s, level) ==
    LET k == IndexLength(level, Len(s))
        starts == 0..(Len(s) - k - 1)
    IN {i \in starts : \A j \in starts : HpdiWidth(s, k, i) <= HpdiWidth(s, k, j)}

\* An interval whose ends are exchanged.
HpdiSwapped(s, level, i) ==
    <<Sorted(s)[i + IndexLength(level, Len(s)) + 1], Sorted(s)[i + 1]>>

Hpdi(s, level, i) ==
    <<Sorted(s)[i + 1], Sorted(s)[i + IndexLength(level, Len(s)) + 1]>>

\* mcmc.summary(prob=...): the mean (reported as sum and count) and the
\* highest-density interval of the retained chain, with the diagnostics.
\* argmin may return any of the narrowest intervals.
Summary ==
    /\ pc = "sampled"
    /\ \E i \in HpdiStarts(samples, prob) :
          stats' = [n |-> Len(samples), sum |-> SumSeq(samples),
                    lower |-> Hpdi(samples, prob, i)[1],
                    upper |-> Hpdi(samples, prob, i)[2],
                    level |-> prob, accepted |-> accepts]
    /\ pc' = "idle"
    /\ UNCHANGED <<aside, config, param_store, rng, chain, n_req, idxs, sample_dict,
                   history>>

\* ------------------------------------------------------------- model(y)
MaxObs == 3        \* longest observation vector of one execution of model

DigitChar(d) ==
    CASE d = 0 -> "0" [] d = 1 -> "1" [] d = 2 -> "2" [] d = 3 -> "3"
      [] d = 4 -> "4" [] d = 5 -> "5" [] d = 6 -> "6" [] d = 7 -> "7"
      [] d = 8 -> "8" [] d = 9 -> "9"

\* "{}".format(k) of a non-negative integer
RECURSIVE FormatInt(_)
FormatInt(k) == IF k < 10 THEN DigitChar(k)
                ELSE FormatInt(k \div 10) \o DigitChar(k % 10)

\* "obs_{}".format(k)
SiteName(k) == "obs_" \o FormatInt(k)

\* pyro.sample(name, fn): a latent site, whose value is drawn from fn
LatentSite(name, fn, value) ==
    [name |-> name, fn |-> fn, value |-> value, is_observed |-> FALSE]

\* A site that lacks obs=: its value is a fresh draw, here the other outcome.
UnconditionedSite(name, fn, value) ==
    [name |-> name, fn |-> fn, value |-> 1 - value, is_observed |-> FALSE]

\* pyro.sample(name, fn, obs=value): an observed site, whose value is value
ObservedSite(name, fn, value) ==
    [name |-> name, fn |-> fn, value |-> value, is_observed |-> TRUE]

\* dist.Uniform(0.0, 1.0) and dist.Bernoulli(p), in grid units
Uniform01 == <<"Uniform", 0, Scale>>
Bernoulli(p) == <<"Bernoulli", p>>

\* underlying_p = pyro.sample("p", dist.Uniform(0.0, 1.0))
ModelSampleP ==
    /\ m_pc = "sample_p"
    /\ \E p \in PGrid :
          /\ underlying_p' = p
          /\ trace' = Append(trace, LatentSite("p", Uniform01, p))
    /\ loop_i' = 0
    /\ m_pc' = "for"
    /\ UNCHANGED <<y, evars, dvars>>

\* one pass of the loop body, for i in range(len(y)):
\*   y_hidden_dist = dist.Bernoulli(underlying_p)
\*   y_real = pyro.sample("obs_{}".format(i), y_hidden_dist, obs = y[i])
ModelObserve ==
    /\ m_pc = "for"
    /\ loop_i < Len(y)
    /\ trace' = Append(trace, ObservedSite(SiteName(loop_i),
                                           Bernoulli(underlying_p),
                                           y[loop_i + 1]))
    /\ loop_i' = loop_i + 1
    /\ UNCHANGED <<y, evars, dvars, m_pc, underlying_p>>

\* range(len(y)) is exhausted: model returns
ModelReturn ==
    /\ m_pc = "for"
    /\ loop_i >= Len(y)
    /\ m_pc' = "return"
    /\ UNCHANGED <<y, evars, dvars, underlying_p, loop_i, trace>>

\* One execution of model(y), for every observation vector up to MaxObs.
InitModelCall ==
    /\ InitEstimator
    /\ InitData
    /\ y \in BinSeqs(MaxObs)
    /\ warmup_steps = 1
    /\ num_samples = 1
    /\ resample_n = 1
    /\ prob = RefProb
    /\ budget = 0
    /\ cap = 0
    /\ m_pc = "sample_p"
    /\ underlying_p = 0
    /\ loop_i = 0
    /\ trace = <<>>

NextModel ==
    \/ ModelSampleP
    \/ ModelObserve
    \/ ModelReturn

SpecModel == InitModelCall /\ [][NextModel]_vars

\* ---------------------------------------------------------- the data cells
NData == 15        \* examples of the dataset
EvalSize == 2      \* the 100 of the evaluation subset, scaled

\* test_size=0.2, as a fraction
TestFrac == <<1, 5>>

Labels == {0, 1}

\* ceil(a / b) of non-negative integers
CeilDiv(a, b) == (a + b - 1) \div b

\* train_test_split's size of the test part for a float test_size:
\* ceil(test_size * n_samples)
NTest(frac, n) == CeilDiv(frac[1] * n, frac[2])

\* train_test_split(X, test_size=frac): a shuffle of X cut in two, the test
\* part NTest long; it raises when the train part would be empty.
Splits(X, frac) ==
    {<<X \ te, te>> : te \in {q \in SUBSET X :
                                /\ Cardinality(q) = NTest(frac, Cardinality(X))
                                /\ Cardinality(q) < Cardinality(X)}}

\* X_train, X_test, y_train, y_test = train_test_split(MNIST_X, MNIST_Y,
\*                                                     test_size=0.2, ...)
SplitCell ==
    /\ d_pc = "split"
    /\ \E sp \in Splits(1..NData, TestFrac) :
          /\ X_train' = sp[1]
          /\ X_test' = sp[2]
    /\ d_pc' = "fit"
    /\ UNCHANGED <<y, evars, mvars, fitted_on, X_100_test, y_100_test,
                   y_100_pred, correctness_values_100>>

\* my_tree.fit(X_train, y_train)
FitCell ==
    /\ d_pc = "fit"
    /\ fitted_on' = X_train
    /\ d_pc' = "split_100"
    /\ UNCHANGED <<y, evars, mvars, X_train, X_test, X_100_test, y_100_test,
                   y_100_pred, correctness_values_100>>

\* An evaluation subset drawn from the whole dataset.
Split100FromAll ==
    /\ d_pc = "split_100"
    /\ \E sp \in Splits(1..NData, <<EvalSize, NData>>) :
          /\ X_100_test' = sp[2]
          /\ y_100_test' \in [sp[2] -> Labels]
    /\ d_pc' = "observe"
    /\ UNCHANGED <<y, evars, mvars, X_train, X_test, fitted_on, y_100_pred,
                   correctness_values_100>>

\* _, X_100_test, _, y_100_test = train_test_split(X_test, y_test,
\*                                    test_size=(100/X_test.shape[0]), ...)
Split100Cell ==
    /\ d_pc = "split_100"
    /\ \E sp \in Splits(X_test, <<EvalSize, Cardinality(X_test)>>) :
          /\ X_100_test' = sp[2]
          /\ y_100_test' \in [sp[2] -> Labels]
    /\ d_pc' = "observe"
    /\ UNCHANGED <<y, evars, mvars, X_train, X_test, fitted_on, y_100_pred,
                   correctness_values_100>>

\* .float() of a boolean
ToFloat(b) == IF b THEN 1 ELSE 0

\* the examples of a set in increasing order
RECURSIVE Ordered(_)
Ordered(S) == IF S = {} THEN <<>>
              ELSE LET m == CHOOSE e \in S : \A o \in S : e <= o
                   IN <<m>> \o Ordered(S \ {m})

\* y_100_pred = my_tree.predict(X_100_test)
\* correctness_values_100 = y_100_pred == y_100_test, then .float();
\* the vector is what the inference cell passes to mcmc.run.
ObservationsCell ==
    /\ d_pc = "observe"
    /\ y_100_pred' \in [X_100_test -> Labels]
    /\ correctness_values_100' =
          [e \in X_100_test |-> ToFloat(y_100_pred'[e] = y_100_test[e])]
    /\ y' = [k \in 1..Cardinality(X_100_test) |->
                correctness_values_100'[Ordered(X_100_test)[k]]]
    /\ d_pc' = "done"
    /\ UNCHANGED <<evars, mvars, X_train, X_test, fitted_on, X_100_test,
                   y_100_test>>

InitDataCells ==
    /\ InitEstimator
    /\ InitModel
    /\ y = <<>>
    /\ warmup_steps = 1
    /\ num_samples = 1
    /\ resample_n = 1
    /\ prob = RefProb
    /\ budget = 0
    /\ cap = 0
    /\ d_pc = "split"
    /\ X_train = {}
    /\ X_test = {}
    /\ fitted_on = {}
    /\ X_100_test = {}
    /\ y_100_test = <<>>
    /\ y_100_pred = <<>>
    /\ correctness_values_100 = <<>>

NextData ==
    \/ SplitCell
    \/ FitCell
    \/ Split100Cell
    \/ ObservationsCell

SpecData == InitDataCells /\ [][NextData]_vars

\* --------------------------------------------------------- specification
\* One pass through the notebook: the seeding cell has been executed, the
\* inference cell and the samples cell are executed once, for any
\* observation vector and any configuration of the sampler.
\* The inputs: every observation vector with the smallest configuration
\* that has a warm-up, and every configuration with one observation vector
\* (the chain's transitions are read from the stream, whatever y is).
InputCases ==
    {<<obs, 1, 1, 1, RefProb>> : obs \in BinSeqs(MaxN)}
    \cup ({<<1>>} \X (0..MaxWarmup) \X (1..MaxSamples) \X (1..MaxResample)
             \X ProbLevels)

Init ==
    /\ InitEstimator
    /\ InitModel
    /\ InitData
    /\ \E c \in InputCases :
          /\ y = c[1]
          /\ warmup_steps = c[2]
          /\ num_samples = c[3]
          /\ resample_n = c[4]
          /\ prob = c[5]
    /\ budget = 1
    /\ cap = 1 + MaxWarmup + MaxSamples + MaxResample

Next ==
    \/ ClearParamStore
    \/ BuildKernel
    \/ BuildMCMC
    \/ RunSetup
    \/ ChainStep
    \/ RunEnd
    \/ GetSamples
    \/ Summary

Spec == Init /\ [][Next]_vars

\* A session in which the cells are executed again: the inference cell up
\* to MaxRuns times, the seeding cell at any time between two cells.
RerunConfigs == {<<0, 1, 1, RefProb>>, <<1, 1, 1, RefProb>>}

InitRerun ==
    /\ InitEstimator
    /\ InitModel
    /\ InitData
    /\ y = <<1, 0>>
    /\ \E cfg \in RerunConfigs :
          /\ warmup_steps = cfg[1]
          /\ num_samples = cfg[2]
          /\ resample_n = cfg[3]
          /\ prob = cfg[4]
    /\ budget = MaxRuns
    /\ cap = MaxStream

NextRerun ==
    \/ SetRngSeed
    \/ ClearParamStore
    \/ BuildKernel
    \/ BuildMCMC
    \/ RunSetup
    \/ ChainStep
    \/ RunEnd
    \/ GetSamples
    \/ Summary

SpecRerun == InitRerun /\ [][NextRerun]_vars

\* ================================================================ claims
RunCompleted == runs > 0 /\ pc \in {"idle", "sampled"}
Reported == stats.n > 0

\* C1: every run of the estimator is preceded by its own clear of the
\* parameter store: when a kernel is built, and while its chain runs, the
\* store has been cleared once more than before the previous run and holds
\* nothing; between two cells every clear has been followed by its run.
C1_ClearBeforeEachRun ==
    /\ pc = "cleared" => clears = runs + 1 /\ param_store = {}
    /\ pc \in {"kernel", "mcmc", "chain"} => clears = runs /\ param_store = {}
    /\ pc \in {"idle", "sampled"} => clears = runs

C1_SecondRunStarted == runs = 2 /\ pc = "chain" /\ clears = 2 /\ t > 0

\* C2: an empty observation vector is rejected: the sampler is not invoked,
\* no iteration is executed and no sample is produced for it.
C2_EmptyObservationsRejected ==
    Len(y) = 0 => pc # "chain" /\ t = 0 /\ samples = <<>> /\ sample_dict = <<>>

\* C3: a warm-up count or sample count that is not positive is rejected
\* before the first iteration of the chain: no iteration is executed.
C3_OutOfRangeRejected ==
    (warmup_steps <= 0 \/ num_samples <= 0) => t = 0

\* C4, as stated: the reported bounds lie in [0,1] and the reported mean
\* lies between them.
C4_MeanWithinInterval ==
    Reported =>
        /\ 0 <= stats.lower /\ stats.upper <= Scale
        /\ stats.lower * stats.n <= stats.sum
        /\ stats.sum <= stats.upper * stats.n

MinOf(s) == CHOOSE m \in Range(s) : \A o \in Range(s) : m <= o
MaxOf(s) == CHOOSE m \in Range(s) : \A o \in Range(s) : m >= o

\* C4, amended: the reported bounds lie in [0,1], lower <= upper, both are
\* states of the retained chain, and the reported mean is the mean of the
\* retained chain, which lies in [0,1] between its smallest and its largest
\* state.
C4_IntervalOrdered ==
    Reported =>
        /\ 0 <= stats.lower /\ stats.lower <= stats.upper
        /\ stats.upper <= Scale
        /\ {stats.lower, stats.upper} \subseteq Range(samples)
        /\ stats.n = Len(samples) /\ stats.sum = SumSeq(samples)
        /\ MinOf(samples) * stats.n <= stats.sum
        /\ stats.sum <= MaxOf(samples) * stats.n

C4_ProperInterval ==
    Reported /\ stats.lower < stats.upper /\ stats.n = MaxSamples

C6_RunCompletes ==
    /\ t <= warmup_steps + num_samples
    /\ pc = "chain" => ENABLED (ChainStep \/ RunEnd)
    /\ (pc = "chain" /\ t < warmup_steps + num_samples) => ~ ENABLED RunEnd
    /\ RunCompleted => t = warmup_steps + num_samples
    /\ Reported => stats.accepted = accepts /\ stats.n = num_samples

C6_AllRejected ==
    /\ RunCompleted
    /\ Reported
    /\ accepts = 0
    /\ t = warmup_steps + num_samples
    /\ t >= 2

\* C7: when model(y) returns it has registered one latent site, "p", drawn
\* from Uniform(0,1), followed by one observed site per observation, named
\* obs_0 .. obs_{N-1} in index order (pairwise distinct), each a Bernoulli
\* of that p whose value is the observation; and y is never written.
ExpectedNames == <<"obs_0", "obs_1", "obs_2", "obs_3", "obs_4", "obs_5">>

ModelReturned == m_pc = "return" /\ underlying_p # 0

C7_TraceShape ==
    ModelReturned =>
        /\ Len(trace) = Len(y) + 1
        /\ trace[1] = [name |-> "p", fn |-> <<"Uniform", 0, Scale>>,
                       value |-> underlying_p, is_observed |-> FALSE]
        /\ Cardinality({k \in 1..Len(trace) : ~ trace[k].is_observed}) = 1
        /\ \A k \in 1..Len(y) :
              /\ trace[k + 1].name = ExpectedNames[k]
              /\ trace[k + 1].fn = <<"Bernoulli", underlying_p>>
              /\ trace[k + 1].value = y[k]
              /\ trace[k + 1].is_observed
        /\ \A j, k \in 1..Len(trace) : j # k => trace[j].name # trace[k].name

C7_ModelConditionsOnY == []C7_TraceShape /\ [][y' = y]_vars

C7_MixedObservations ==
    ModelReturned /\ Len(y) = MaxObs /\ y[1] # y[2] /\ Len(trace) = MaxObs + 1

\* C8: the retained chain is the states after the iterations that follow
\* the warm-up, in order, and nothing else; when the run has returned it
\* holds num_samples states, after warmup_steps warm-up iterations.
C8_WarmupThenRetained ==
    /\ Len(visited) = t
    /\ samples = IF t > warmup_steps THEN SubSeq(visited, warmup_steps + 1, t)
                 ELSE <<>>
    /\ RunCompleted =>
          /\ Len(samples) = num_samples
          /\ t - Len(samples) = warmup_steps

C8_WarmupStateDiscarded ==
    /\ RunCompleted
    /\ warmup_steps >= 1
    /\ visited[warmup_steps] \notin Range(samples)

\* C9: get_samples(num_samples=S) returns S draws, each the state of the
\* retained chain at an index within it (so never a warm-up state), also
\* when S exceeds the length of the retained chain, and the retained chain
\* is what the run left.
C9_ResampleFromRetained ==
    n_req > 0 =>
        /\ n_req = resample_n
        /\ Len(sample_dict) = resample_n
        /\ Len(idxs) = resample_n
        /\ \A k \in 1..resample_n :
              /\ idxs[k] \in 0..(num_samples - 1)
              /\ sample_dict[k] = visited[warmup_steps + idxs[k] + 1]
        /\ samples = SubSeq(visited, warmup_steps + 1,
                            warmup_steps + num_samples)

C9_MoreDrawsThanRetained ==
    /\ n_req > Len(samples)
    /\ Len(sample_dict) = n_req
    /\ warmup_steps >= 1

\* C10: the evaluation subset is part of the test split and shares no
\* example with the split the classifier was fitted on; the correctness
\* vector has one entry per example of the subset, 1 iff the prediction
\* equals the label, and the vector passed to mcmc.run is as long.
C10_HeldOutObservations ==
    /\ X_train \cap X_test = {}
    /\ d_pc \in {"split_100", "observe", "done"} => fitted_on = X_train
    /\ d_pc \in {"observe", "done"} =>
          /\ X_100_test \subseteq X_test
          /\ X_100_test \cap fitted_on = {}
          /\ Cardinality(X_100_test) = EvalSize
    /\ (d_pc = "done" /\ X_100_test # {}) =>
          /\ DOMAIN correctness_values_100 = X_100_test
          /\ \A e \in X_100_test :
                /\ correctness_values_100[e] \in {0, 1}
                /\ correctness_values_100[e] = 1
                      <=> y_100_pred[e] = y_100_test[e]
          /\ Len(y) = Cardinality(X_100_test)
          /\ \A k \in 1..Len(y) :
                y[k] = correctness_values_100[Ordered(X_100_test)[k]]

C10_MixedCorrectness ==
    /\ d_pc = "done"
    /\ X_100_test # {}
    /\ \E a, b \in 1..Len(y) : y[a] = 1 /\ y[b] = 0

TypeOK ==
    /\ z \in 0..(Scale - 1)
    /\ t \in 0..(MaxWarmup + MaxSamples)
    /\ Range(samples) \subseteq PGrid
    /\ Len(rngStream) <= cap
=============================================================================
